---- MODULE Spec2Model ----
(***************************************************************************)
(* Model of the model-routing benchmark: the retrying completion client    *)
(* (router.py, OpenRouterClient.get_completion), the per-question handler  *)
(* (main.py, process_question) and the semaphore-gated dispatcher and      *)
(* report assembly (main.py, main).                                        *)
(*                                                                         *)
(* Concurrency is asyncio's: one event loop, coroutines interleave only at *)
(* an await that really suspends (the remote request, the backoff sleep,   *)
(* a blocked semaphore acquire).  Each action below is one such run of a   *)
(* coroutine from one suspension to the next.                              *)
(*                                                                         *)
(* config.CONCURRENT_REQUESTS (5 in config.py, "adjust based on your rate   *)
(* limits") is a variable fixed by Init to a value of 1..MaxConcurrent, so *)
(* that files longer than the ceiling are within reach.  Question records  *)
(* are what process_question reads from them with dict.get: a missing key  *)
(* reads as None.                                                          *)
(*                                                                         *)
(* Three specifications:                                                   *)
(*   Spec        the whole program, main() with the defaults of            *)
(*               get_completion (retries = 3, delay = 2);                  *)
(*   ConfigSpec  the same with CONCURRENT_REQUESTS = 0 allowed as well;    *)
(*   ClientSpec  one direct call get_completion(prompt, retries, delay)    *)
(*               with the arguments drawn from bounded sets.               *)
(***************************************************************************)
EXTENDS Integers, Sequences, FiniteSets

\* ---------------------------------------------------------------- bounds
\* Longest question file considered.
MaxQuestions == 3
\* Well-formed question records have the ids 1..MaxId (a file may repeat one).
MaxId == 2
\* Largest configured value of CONCURRENT_REQUESTS considered.
MaxConcurrent == 2
\* Largest retries argument of a direct get_completion call.
MaxRetries == 4
\* Largest initial delay argument of a direct get_completion call.
MaxDelay == 3

\* ------------------------------------------------------ program constants
\* get_completion(self, prompt, retries: int = 3, delay: int = 2)
DefaultRetries == 3
DefaultDelay == 2

\* Python's None (no service value equals it).
None == "None"

VARIABLES
    \* --- environment and configuration
    api_key_set,          \* os.getenv("OPEN_ROUTER_API_KEY") is non-empty
    question_file,        \* questions-benchmark.json: [status, content]
    CONCURRENT_REQUESTS,  \* config.CONCURRENT_REQUESTS
    \* --- main()
    main_pc,              \* position of main()
    questions,            \* the loaded list
    benchmark_results,    \* the shared result list
    summary,              \* [total_questions, model_usage, failed_questions]
    semaphore,            \* the value of asyncio.Semaphore
    tasks,                \* one handler coroutine per question: its locals
    invoked,              \* per position: number of process_question calls
    completed,            \* positions of the finished handlers, in finishing order
    written,              \* the reports written to OUTPUT_FILE_NAME, in order
    \* --- a direct call of get_completion (ClientSpec)
    call,                 \* the locals of the call
    args,                 \* the arguments it was called with
    requests,             \* number of chat.completions.create requests sent
    sleeps,               \* durations of the asyncio.sleep calls, in order
    outcomes              \* what each request ended with, in order

envVars == <<api_key_set, question_file, CONCURRENT_REQUESTS>>
mainVars == <<main_pc, questions, benchmark_results, summary, semaphore, tasks,
              invoked, completed, written>>
clientVars == <<call, args, requests, sleeps, outcomes>>
vars == <<envVars, mainVars, clientVars>>

\* ------------------------------------------------------------- data model
\* The question records a file may hold, as process_question reads them with
\* question_data.get: {id, difficulty, question}, and one record without a
\* "question" key, for which get("question") is None.
QuestionPool ==
    { [id |-> i,
       difficulty |-> IF i % 2 = 1 THEN "easy" ELSE "hard",
       question |-> IF i % 2 = 1 THEN "odd question" ELSE "even question"] :
      i \in 1..MaxId }
    \cup { [id |-> MaxId + 1, difficulty |-> "hard", question |-> None] }

\* The prompts of a direct get_completion(prompt: str, ...) call.
Prompts == {"odd question"}

\* All sequences over S of length at most n.
SeqUpTo(S, n) == UNION { [1..k -> S] : k \in 0..n }

\* The states of questions-benchmark.json.
QuestionFiles ==
    { [status |-> "ok", content |-> qs] : qs \in SeqUpTo(QuestionPool, MaxQuestions) }
    \cup { [status |-> st, content |-> <<>>] : st \in {"missing", "malformed"} }

\* What the service can answer: completion.model and the contents of
\* completion.choices (possibly none, possibly an empty text).
Responses ==
    { [model |-> "m1", choices |-> <<"a1">>],
      [model |-> "m2", choices |-> <<"a2", "a1">>],
      [model |-> "m1", choices |-> <<"">>],
      [model |-> "m1", choices |-> <<>>] }

\* The classes of exception a request can raise.
ErrorClasses == {"RateLimitError", "APIConnectionError", "APIStatusError", "ValueError"}

\* Python truthiness of a str | None value.
Truthy(v) == v # None /\ v # ""

\* dict.get(key, default)
Get(d, k, default) == IF k \in DOMAIN d THEN d[k] ELSE default

\* ------------------------------------------- router.py: get_completion
\* The locals of a get_completion call.  pc: "request" (awaiting
\* chat.completions.create), "sleeping" (awaiting asyncio.sleep(delay)),
\* "returned" (ret is the returned pair), "raised" (an exception left it).
NoReturn == <<None, None>>

IdleCall ==
    [pc |-> "idle", prompt |-> "", attempt |-> 0, delay |-> 0, retries |-> 0,
     ret |-> NoReturn]

\* prompt[:50] is defined for a string and raises TypeError for None.
Sliceable(prompt) == prompt # None

\* After the loop: logging.error(f"... {prompt[:50]}..."); return None, None
FinalReturn(c) ==
    IF Sliceable(c.prompt)
    THEN [c EXCEPT !.pc = "returned", !.ret = NoReturn]
    ELSE [c EXCEPT !.pc = "raised"]

\* Faulty variant of LoopHead: one attempt too many (range(retries + 1)).
LoopHeadOneMore(c) ==
    IF c.attempt <= c.retries THEN [c EXCEPT !.pc = "request"] ELSE FinalReturn(c)

\* for attempt in range(retries): ... else fall out to the final return.
LoopHead(c) ==
    IF c.attempt < c.retries THEN [c EXCEPT !.pc = "request"] ELSE FinalReturn(c)

\* Entry of get_completion up to the first request.
BeginCall(prompt, retries, delay) ==
    LoopHead([pc |-> "request", prompt |-> prompt, attempt |-> 0, delay |-> delay,
              retries |-> retries, ret |-> NoReturn])

\* except RateLimitError
IsRateLimit(e) == e = "RateLimitError"

\* except (APIConnectionError, APIStatusError)
IsApiError(e) == e \in {"APIConnectionError", "APIStatusError"}

\* Faulty variant of OnError: every exception is retried.
OnErrorRetryAll(c, e) == [c EXCEPT !.pc = "sleeping"]

\* The request raised e: the two retrying handlers sleep, the last one breaks
\* out of the loop to the final return.
OnError(c, e) ==
    IF IsRateLimit(e) \/ IsApiError(e)
    THEN [c EXCEPT !.pc = "sleeping"]
    ELSE FinalReturn(c)

\* Faulty variant of OnResponse: the last choice is returned, not the first.
OnResponseLastChoice(c, r) ==
    IF Len(r.choices) = 0
    THEN OnError(c, "IndexError")
    ELSE [c EXCEPT !.pc = "returned", !.ret = <<r.model, r.choices[Len(r.choices)]>>]

\* The request returned r: completion.choices[0] raises IndexError inside the
\* try when there is no choice; otherwise return (model, content).
OnResponse(c, r) ==
    IF Len(r.choices) = 0
    THEN OnError(c, "IndexError")
    ELSE [c EXCEPT !.pc = "returned", !.ret = <<r.model, r.choices[1]>>]

\* Faulty variant of AfterSleep: the delay is not doubled.
AfterSleepNoDoubling(c) == LoopHead([c EXCEPT !.attempt = c.attempt + 1])

\* asyncio.sleep(delay) is over: delay *= 2, next iteration of the loop.
AfterSleep(c) ==
    LoopHead([c EXCEPT !.delay = c.delay * 2, !.attempt = c.attempt + 1])

\* ------------------------------------------- main.py: process_question
ResultEntry(q, ret) ==
    [id |-> q.id, difficulty |-> q.difficulty, question |-> q.question,
     model_used |-> ret[1], answer |-> ret[2]]

\* Faulty variant of IncrementUsage: a lost update, the count read before
\* another handler's increment is written back.
IncrementUsageLost(usage, m) ==
    [k \in DOMAIN usage \cup {m} |-> IF k = m THEN 1 ELSE usage[k]]

\* summary_data["model_usage"][m] = summary_data["model_usage"].get(m, 0) + 1
IncrementUsage(usage, m) ==
    [k \in DOMAIN usage \cup {m} |-> IF k = m THEN Get(usage, m, 0) + 1 ELSE usage[k]]

\* if model_used and answer
Answered(ret) == Truthy(ret[1]) /\ Truthy(ret[2])

\* Faulty variant of Record: a missing answer is logged but its id is not recorded.
RecordSkipFailed(q, ret, results, summ) ==
    IF Answered(ret)
    THEN [results |-> Append(results, ResultEntry(q, ret)),
          summary |-> [summ EXCEPT !.model_usage = IncrementUsage(@, ret[1])]]
    ELSE [results |-> results, summary |-> summ]

\* The part of process_question after the await: the new (results, summary).
Record(q, ret, results, summ) ==
    IF Answered(ret)
    THEN [results |-> Append(results, ResultEntry(q, ret)),
          summary |-> [summ EXCEPT !.model_usage = IncrementUsage(@, ret[1])]]
    ELSE [results |-> results,
          summary |-> [summ EXCEPT !.failed_questions = Append(@, q.id)]]

\* ------------------------------------------------------- main.py: main
NewSummary(qs) ==
    [total_questions |-> Len(qs), model_usage |-> [m \in {} |-> 0],
     failed_questions |-> <<>>]

NoSummary == NewSummary(<<>>)

\* A coroutine object of semaphored_process_question, not yet started.
NewTask == [IdleCall EXCEPT !.pc = "created"]

\* A finished task: the coroutine's locals are gone; ret remembers the pair
\* that get_completion returned to process_question.
DoneTask(ret) == [IdleCall EXCEPT !.pc = "done", !.ret = ret]

\* Faulty variant of Locked: the gate never closes.
LockedNever(value) == value < 0

\* asyncio.Semaphore.locked()
Locked(value) == value = 0

\* Handlers inside "async with semaphore".
InFlight == { i \in DOMAIN tasks : tasks[i].pc \in {"request", "sleeping"} }

\* Handlers blocked in semaphore.acquire().
Waiting == { i \in DOMAIN tasks : tasks[i].pc = "waiting" }

Finished == { i \in DOMAIN tasks : tasks[i].pc = "done" }

\* Faulty variant of AllDone: the wait ends with the first finished handler.
AllDoneFirst(ts) == \E i \in DOMAIN ts : ts[i].pc = "done"

\* asyncio.gather(*tasks) has every result.
AllDone(ts) == \A i \in DOMAIN ts : ts[i].pc = "done"

\* Faulty variant of SortById: the sort is left out.
SortByIdOmitted(s) == s

\* list.sort(key=lambda x: x.get("id", 0)): stable, ascending.
RECURSIVE InsertById(_, _)
InsertById(sorted, e) ==
    IF sorted = <<>> THEN <<e>>
    ELSE IF Get(Head(sorted), "id", 0) <= Get(e, "id", 0)
         THEN <<Head(sorted)>> \o InsertById(Tail(sorted), e)
         ELSE <<e>> \o sorted

RECURSIVE SortById(_)
SortById(s) ==
    IF s = <<>> THEN <<>>
    ELSE InsertById(SortById(SubSeq(s, 1, Len(s) - 1)), s[Len(s)])

\* Faulty variant of MakeTasks: the last question gets no task.
MakeTasksDropLast(qs) == [i \in 1..(Len(qs) - 1) |-> NewTask]

\* tasks = [semaphored_process_question(q) for q in questions]
MakeTasks(qs) == [i \in 1..Len(qs) |-> NewTask]

\* ----------------------------------------------------------- Spec: init
Init ==
    /\ api_key_set \in BOOLEAN
    /\ question_file \in QuestionFiles
    /\ CONCURRENT_REQUESTS \in 1..MaxConcurrent
    /\ main_pc = "check_key"
    /\ questions = <<>>
    /\ benchmark_results = <<>>
    /\ summary = NoSummary
    /\ semaphore = 0
    /\ tasks = <<>>
    /\ invoked = <<>>
    /\ completed = <<>>
    /\ written = <<>>
    /\ call = IdleCall
    /\ args = [retries |-> 0, delay |-> 0]
    /\ requests = 0
    /\ sleeps = <<>>
    /\ outcomes = <<>>

\* -------------------------------------------------------- main: pre-flight
\* Faulty variant of CheckApiKey: the run goes on without the credential.
CheckApiKeySkipped ==
    /\ main_pc = "check_key"
    /\ main_pc' = "load"
    /\ UNCHANGED <<envVars, questions, benchmark_results, summary, semaphore,
                   tasks, invoked, completed, written, clientVars>>

\* if not os.getenv("OPEN_ROUTER_API_KEY"): return
CheckApiKey ==
    /\ main_pc = "check_key"
    /\ main_pc' = IF api_key_set THEN "load" ELSE "aborted"
    /\ UNCHANGED <<envVars, questions, benchmark_results, summary, semaphore,
                   tasks, invoked, completed, written, clientVars>>

\* json.load of the question file; FileNotFoundError and JSONDecodeError return.
LoadQuestions ==
    /\ main_pc = "load"
    /\ IF question_file.status = "ok"
       THEN main_pc' = "dispatch" /\ questions' = question_file.content
       ELSE main_pc' = "aborted" /\ questions' = questions
    /\ UNCHANGED <<envVars, benchmark_results, summary, semaphore, tasks,
                   invoked, completed, written, clientVars>>

\* The client, the result list, the summary, the semaphore and the coroutines
\* are created and main awaits asyncio.gather(*tasks).
Dispatch ==
    /\ main_pc = "dispatch"
    /\ benchmark_results' = <<>>
    /\ summary' = NewSummary(questions)
    /\ semaphore' = CONCURRENT_REQUESTS
    /\ tasks' = MakeTasks(questions)
    /\ invoked' = [i \in 1..Len(questions) |-> 0]
    /\ main_pc' = "gather"
    /\ UNCHANGED <<envVars, questions, completed, written, clientVars>>

\* ------------------------------------------------------------ the handlers
\* process_question(client, questions[i], ...) is called and runs into
\* get_completion up to its first request (DefaultRetries > 0: there is one).
FirstRequest(i) == BeginCall(questions[i].question, DefaultRetries, DefaultDelay)

\* The blocked handler that semaphore.release() wakes: the first that blocked,
\* which is the one created first.
NextWaiter(ts) ==
    CHOOSE w \in DOMAIN ts :
        /\ ts[w].pc = "waiting"
        /\ \A v \in DOMAIN ts : ts[v].pc = "waiting" => w <= v

\* Faulty variant of Release: with nobody blocked the slot is not given back.
ReleaseKeepsSlot(ts, inv, sem) ==
    IF \E w \in DOMAIN ts : ts[w].pc = "waiting"
    THEN LET w == NextWaiter(ts)
         IN [tasks |-> [ts EXCEPT ![w] = FirstRequest(w)],
             invoked |-> [inv EXCEPT ![w] = @ + 1],
             semaphore |-> sem]
    ELSE [tasks |-> ts, invoked |-> inv, semaphore |-> sem]

\* Leaving "async with semaphore" with the tasks at ts: the slot goes to the
\* woken handler, which runs on to its first request before the event loop
\* looks at any other event; with nobody blocked the slot is free again.
Release(ts, inv, sem) ==
    IF \E w \in DOMAIN ts : ts[w].pc = "waiting"
    THEN LET w == NextWaiter(ts)
         IN [tasks |-> [ts EXCEPT ![w] = FirstRequest(w)],
             invoked |-> [inv EXCEPT ![w] = @ + 1],
             semaphore |-> sem]
    ELSE [tasks |-> ts, invoked |-> inv, semaphore |-> sem + 1]

\* Faulty variant of Resume: the backoff delay is kept on the shared client,
\* so the delay one call has reached is the delay of every call in progress.
ResumeSharedDelay(i, c) ==
    IF c.pc = "returned"
    THEN LET rec == Record(questions[i], c.ret, benchmark_results, summary)
             rel == Release([tasks EXCEPT ![i] = DoneTask(c.ret)], invoked, semaphore)
         IN /\ benchmark_results' = rec.results
            /\ summary' = rec.summary
            /\ tasks' = rel.tasks
            /\ invoked' = rel.invoked
            /\ semaphore' = rel.semaphore
            /\ completed' = Append(completed, i)
    ELSE IF c.pc = "raised"
    THEN LET rel == Release([tasks EXCEPT ![i] = c], invoked, semaphore)
         IN /\ tasks' = rel.tasks
            /\ invoked' = rel.invoked
            /\ semaphore' = rel.semaphore
            /\ UNCHANGED <<benchmark_results, summary, completed>>
    ELSE /\ tasks' = [j \in DOMAIN tasks |->
                         IF j = i THEN c
                         ELSE IF tasks[j].pc \in {"request", "sleeping"}
                              THEN [tasks[j] EXCEPT !.delay = c.delay]
                              ELSE tasks[j]]
         /\ UNCHANGED <<benchmark_results, summary, semaphore, invoked, completed>>

\* Handler i runs on from a step of its get_completion call that left the
\* locals c: a call still in progress suspends again; a returned call is
\* recorded, the slot released and the task done; an exception leaves
\* get_completion, process_question and "async with" (releasing the slot)
\* and ends the task.
Resume(i, c) ==
    IF c.pc = "returned"
    THEN LET rec == Record(questions[i], c.ret, benchmark_results, summary)
             rel == Release([tasks EXCEPT ![i] = DoneTask(c.ret)], invoked, semaphore)
         IN /\ benchmark_results' = rec.results
            /\ summary' = rec.summary
            /\ tasks' = rel.tasks
            /\ invoked' = rel.invoked
            /\ semaphore' = rel.semaphore
            /\ completed' = Append(completed, i)
    ELSE IF c.pc = "raised"
    THEN LET rel == Release([tasks EXCEPT ![i] = c], invoked, semaphore)
         IN /\ tasks' = rel.tasks
            /\ invoked' = rel.invoked
            /\ semaphore' = rel.semaphore
            /\ UNCHANGED <<benchmark_results, summary, completed>>
    ELSE /\ tasks' = [tasks EXCEPT ![i] = c]
         /\ UNCHANGED <<benchmark_results, summary, semaphore, invoked, completed>>

\* Every task has taken its first step.
AllStarted == \A i \in DOMAIN tasks : tasks[i].pc # "created"

\* The first step of task i (the tasks start in creation order, before the
\* event loop delivers any response): acquire the semaphore and go on to the
\* first request, or block on it.
StartTask(i) ==
    /\ main_pc = "gather"
    /\ tasks[i].pc = "created"
    /\ \A j \in 1..(i - 1) : tasks[j].pc # "created"
    /\ IF Locked(semaphore)
       THEN /\ tasks' = [tasks EXCEPT ![i].pc = "waiting"]
            /\ UNCHANGED <<semaphore, invoked>>
       ELSE /\ semaphore' = semaphore - 1
            /\ invoked' = [invoked EXCEPT ![i] = @ + 1]
            /\ tasks' = [tasks EXCEPT ![i] = FirstRequest(i)]
    /\ UNCHANGED <<envVars, main_pc, questions, benchmark_results, summary,
                   completed, written, clientVars>>

\* The request of handler i returns the completion r.
RemoteResponds(i, r) ==
    /\ main_pc = "gather"
    /\ AllStarted
    /\ tasks[i].pc = "request"
    /\ Resume(i, OnResponse(tasks[i], r))
    /\ UNCHANGED <<envVars, main_pc, questions, written, clientVars>>

\* The request of handler i raises an exception of class e.
RemoteFails(i, e) ==
    /\ main_pc = "gather"
    /\ AllStarted
    /\ tasks[i].pc = "request"
    /\ Resume(i, OnError(tasks[i], e))
    /\ UNCHANGED <<envVars, main_pc, questions, written, clientVars>>

\* The backoff sleep of handler i is over.
SleepEnds(i) ==
    /\ main_pc = "gather"
    /\ AllStarted
    /\ tasks[i].pc = "sleeping"
    /\ Resume(i, AfterSleep(tasks[i]))
    /\ UNCHANGED <<envVars, main_pc, questions, written, clientVars>>

\* gather (return_exceptions is not set) passes the first exception of a task
\* on to main, which has no handler for it: main ends, asyncio.run cancels
\* the handlers still running and nothing is written.
GatherRaises ==
    /\ main_pc = "gather"
    /\ \E i \in DOMAIN tasks : tasks[i].pc = "raised"
    /\ main_pc' = "crashed"
    /\ UNCHANGED <<envVars, questions, benchmark_results, summary, semaphore,
                   tasks, invoked, completed, written, clientVars>>

\* ------------------------------------------------------ main: the report
Report(results, summ) == [results |-> results, summary |-> summ]

\* gather returns: sort, assemble, write (an IOError is caught and logged).
Finish(write_ok) ==
    /\ main_pc = "gather"
    /\ AllDone(tasks)
    /\ benchmark_results' = SortById(benchmark_results)
    /\ written' = IF write_ok
                  THEN Append(written, Report(benchmark_results', summary))
                  ELSE written
    /\ main_pc' = "done"
    /\ UNCHANGED <<envVars, questions, summary, semaphore, tasks, invoked,
                   completed, clientVars>>

Next ==
    \/ CheckApiKey
    \/ LoadQuestions
    \/ Dispatch
    \/ \E i \in DOMAIN tasks : StartTask(i)
    \/ \E i \in DOMAIN tasks, r \in Responses : RemoteResponds(i, r)
    \/ \E i \in DOMAIN tasks, e \in ErrorClasses : RemoteFails(i, e)
    \/ \E i \in DOMAIN tasks : SleepEnds(i)
    \/ GatherRaises
    \/ \E write_ok \in BOOLEAN : Finish(write_ok)

Spec == Init /\ [][Next]_vars

\* ------------------------- ConfigSpec: any ceiling that builds a semaphore
\* main() as in Spec, with config.CONCURRENT_REQUESTS any value that
\* asyncio.Semaphore accepts, 0 included.
ConfigInit ==
    /\ api_key_set \in BOOLEAN
    /\ question_file \in QuestionFiles
    /\ CONCURRENT_REQUESTS \in 0..MaxConcurrent
    /\ main_pc = "check_key"
    /\ questions = <<>>
    /\ benchmark_results = <<>>
    /\ summary = NoSummary
    /\ semaphore = 0
    /\ tasks = <<>>
    /\ invoked = <<>>
    /\ completed = <<>>
    /\ written = <<>>
    /\ call = IdleCall
    /\ args = [retries |-> 0, delay |-> 0]
    /\ requests = 0
    /\ sleeps = <<>>
    /\ outcomes = <<>>

ConfigSpec == ConfigInit /\ [][Next]_vars

\* ------------------------------------- ClientSpec: one direct call
\* What a request ended with: a completion, or an exception of a class.
NoResponse == [model |-> None, choices |-> <<>>]

Responded(r) == [kind |-> "response", error |-> "", response |-> r]

Failed(e) == [kind |-> "error", error |-> e, response |-> NoResponse]

ClientInit ==
    /\ api_key_set = TRUE
    /\ question_file = [status |-> "ok", content |-> <<>>]
    /\ CONCURRENT_REQUESTS = 1
    /\ main_pc = "not_run"
    /\ questions = <<>>
    /\ benchmark_results = <<>>
    /\ summary = NoSummary
    /\ semaphore = 0
    /\ tasks = <<>>
    /\ invoked = <<>>
    /\ completed = <<>>
    /\ written = <<>>
    /\ call = IdleCall
    /\ args = [retries |-> 0, delay |-> 0]
    /\ requests = 0
    /\ sleeps = <<>>
    /\ outcomes = <<>>

\* get_completion(prompt, retries, delay) is called and runs to its first request.
Invoke(prompt, retries, delay) ==
    /\ call.pc = "idle"
    /\ call' = BeginCall(prompt, retries, delay)
    /\ args' = [retries |-> retries, delay |-> delay]
    /\ requests' = IF call'.pc = "request" THEN requests + 1 ELSE requests
    /\ UNCHANGED <<envVars, mainVars, sleeps, outcomes>>

\* The pending request returns the completion r.
ServiceResponds(r) ==
    /\ call.pc = "request"
    /\ call' = OnResponse(call, r)
    /\ outcomes' = Append(outcomes, Responded(r))
    /\ sleeps' = IF call'.pc = "sleeping" THEN Append(sleeps, call'.delay) ELSE sleeps
    /\ UNCHANGED <<envVars, mainVars, args, requests>>

\* The pending request raises an exception of class e.
ServiceFails(e) ==
    /\ call.pc = "request"
    /\ call' = OnError(call, e)
    /\ outcomes' = Append(outcomes, Failed(e))
    /\ sleeps' = IF call'.pc = "sleeping" THEN Append(sleeps, call'.delay) ELSE sleeps
    /\ UNCHANGED <<envVars, mainVars, args, requests>>

\* The backoff sleep is over.
BackoffEnds ==
    /\ call.pc = "sleeping"
    /\ call' = AfterSleep(call)
    /\ requests' = IF call'.pc = "request" THEN requests + 1 ELSE requests
    /\ UNCHANGED <<envVars, mainVars, args, sleeps, outcomes>>

ClientNext ==
    \/ \E prompt \in Prompts, retries \in 1..MaxRetries, delay \in 1..MaxDelay :
           Invoke(prompt, retries, delay)
    \/ \E r \in Responses : ServiceResponds(r)
    \/ \E e \in ErrorClasses : ServiceFails(e)
    \/ BackoffEnds

ClientSpec == ClientInit /\ [][ClientNext]_vars

\* ================================================================ claims
\* The ids of a sequence of records, and of questions, as sets.
IdsOf(s) == { s[i].id : i \in DOMAIN s }

Range(s) == { s[i] : i \in DOMAIN s }

\* Number of positions of s holding x.
Count(s, x) == Cardinality({ i \in DOMAIN s : s[i] = x })

\* The ids of a sequence of records, as a sequence.
Ids(s) == [i \in DOMAIN s |-> s[i].id]

Ascending(s) == \A i, j \in DOMAIN s : i < j => s[i].id <= s[j].id

\* s and t hold the same entries the same number of times.
SameEntries(s, t) ==
    /\ Len(s) = Len(t)
    /\ \A x \in Range(s) \cup Range(t) : Count(s, x) = Count(t, x)

DistinctIds(s) == \A i, j \in DOMAIN s : i # j => s[i].id # s[j].id

\* C1: at every moment the number of handlers that have entered the
\* semaphore gate and not yet left it is at most CONCURRENT_REQUESTS.
C1_InFlightBounded == Cardinality(InFlight) <= CONCURRENT_REQUESTS

\* The gate is full, one handler inside it is in a backoff sleep and another
\* question is blocked at the gate.
C1_GateFull ==
    /\ main_pc = "gather"
    /\ Cardinality(InFlight) = CONCURRENT_REQUESTS
    /\ Waiting # {}
    /\ \E i \in InFlight : tasks[i].pc = "sleeping"

\* C2: when the dispatcher has handed control back to main, process_question
\* has been invoked exactly once for each position of the input sequence,
\* whatever the outcomes of the other questions (and at no moment more than
\* once for any position).
C2_EachPositionOnce ==
    /\ \A i \in DOMAIN invoked : invoked[i] <= 1
    /\ main_pc \in {"done", "crashed"} =>
           /\ Len(invoked) = Len(questions)
           /\ \A i \in DOMAIN questions : invoked[i] = 1

\* C3 as stated: in a completed run len(results) + len(failed_questions) is
\* total_questions, the id sets of results and failed_questions are disjoint
\* and their union is the set of input ids.
C3_Original ==
    main_pc = "done" =>
        /\ Len(benchmark_results) + Len(summary.failed_questions)
               = summary.total_questions
        /\ IdsOf(benchmark_results) \cap Range(summary.failed_questions) = {}
        /\ IdsOf(benchmark_results) \cup Range(summary.failed_questions)
               = IdsOf(questions)

\* C3 amended: in a completed run len(results) + len(failed_questions) is
\* total_questions, the union of the two id sets is the set of input ids, and
\* every id occurs in results and failed_questions together as often as in the
\* input; so the two id sets are disjoint whenever the input ids are distinct.
C3_Partition ==
    main_pc = "done" =>
        /\ Len(benchmark_results) + Len(summary.failed_questions)
               = summary.total_questions
        /\ summary.total_questions = Len(questions)
        /\ IdsOf(benchmark_results) \cup Range(summary.failed_questions)
               = IdsOf(questions)
        /\ \A x \in IdsOf(questions) \cup IdsOf(benchmark_results)
                     \cup Range(summary.failed_questions) :
               Count(Ids(benchmark_results), x) + Count(summary.failed_questions, x)
                   = Count(Ids(questions), x)
        /\ DistinctIds(questions) =>
               IdsOf(benchmark_results) \cap Range(summary.failed_questions) = {}

\* A completed run over distinct ids with an answered and a failed question.
C3_MixedRun ==
    /\ main_pc = "done"
    /\ DistinctIds(questions)
    /\ Len(questions) >= 2
    /\ benchmark_results # <<>>
    /\ summary.failed_questions # <<>>

\* C4: the sort at the end of the run leaves results ascending by id whatever
\* the order the handlers completed in, it only reorders the entries the
\* handlers appended, and the report written holds the sorted list.
C4_SortedReport ==
    [][ (main_pc = "gather" /\ main_pc' = "done") =>
            /\ Ascending(benchmark_results')
            /\ SameEntries(benchmark_results, benchmark_results')
            /\ \A k \in DOMAIN written' : written'[k].results = benchmark_results'
      ]_vars

\* A written report of a run whose handlers completed out of id order: the
\* answered question with the larger id finished first.
C4_OutOfOrder ==
    /\ main_pc = "done"
    /\ written # <<>>
    /\ \E a, b \in DOMAIN completed :
           /\ a < b
           /\ questions[completed[a]].id > questions[completed[b]].id
           /\ Answered(tasks[completed[a]].ret)
           /\ Answered(tasks[completed[b]].ret)

\* --------------------------------------------- claims about get_completion
RetryableClasses == {"RateLimitError", "APIConnectionError", "APIStatusError"}

\* The request failed with a rate-limit, connectivity or status error.
Retryable(o) == o.kind = "error" /\ o.error \in RetryableClasses

\* The request returned a completion with a first choice.
Succeeded(o) == o.kind = "response" /\ o.response.choices # <<>>

\* The attempt failed with any other error (reading the first choice of a
\* completion without choices is one).
NonRetryable(o) == ~Retryable(o) /\ ~Succeeded(o)

RECURSIVE Sum(_)
Sum(s) == IF s = <<>> THEN 0 ELSE Head(s) + Sum(Tail(s))

\* C5: a call whose attempts all fail with retryable errors makes exactly
\* `retries` attempts and returns (None, None); no call makes more than
\* `retries` attempts or returns from retryable failures before the last one.
C5_Exhaustion ==
    /\ requests <= args.retries
    /\ (call.pc = "returned" /\ \A k \in DOMAIN outcomes : Retryable(outcomes[k])) =>
           /\ requests = args.retries
           /\ Len(outcomes) = args.retries
           /\ call.ret = NoReturn

\* retries = 3, three rate-limit errors, the call has returned.
C5_ThreeRateLimits ==
    /\ call.pc = "returned"
    /\ args.retries = DefaultRetries
    /\ outcomes = [k \in 1..DefaultRetries |-> Failed("RateLimitError")]
    /\ requests = DefaultRetries
    /\ call.ret = NoReturn

\* C6: an attempt k that fails with a non-retryable error is the last: the
\* call has returned (None, None) after exactly k attempts, and only the k - 1
\* earlier failures were followed by a backoff wait.
C6_AbortOnUnexpected ==
    \A k \in DOMAIN outcomes :
        NonRetryable(outcomes[k]) =>
            /\ k = Len(outcomes)
            /\ call.pc = "returned"
            /\ call.ret = NoReturn
            /\ requests = k
            /\ Len(sleeps) = k - 1

\* An unrecognized error on the first attempt: one attempt, no wait.
C6_FirstAttemptAborts ==
    /\ outcomes = <<Failed("ValueError")>>
    /\ call.pc = "returned"
    /\ requests = 1
    /\ sleeps = <<>>

\* C7: an attempt k that succeeds is the last: the call has returned the model
\* name and the first choice's text of that response after exactly k attempts
\* and k - 1 waits, all earlier attempts having failed with retryable errors.
C7_SuccessReturns ==
    \A k \in DOMAIN outcomes :
        Succeeded(outcomes[k]) =>
            /\ k = Len(outcomes)
            /\ call.pc = "returned"
            /\ call.ret = <<outcomes[k].response.model, outcomes[k].response.choices[1]>>
            /\ requests = k
            /\ Len(sleeps) = k - 1
            /\ \A j \in 1..(k - 1) : Retryable(outcomes[j])

\* Success on the third attempt with a completion that has two choices.
C7_ThirdAttemptSucceeds ==
    /\ Len(outcomes) = 3
    /\ Succeeded(outcomes[3])
    /\ Len(outcomes[3].response.choices) = 2
    /\ call.ret = <<"m2", "a2">>

\* C8: the i-th backoff wait follows the i-th retryable failure and lasts
\* delay * 2^(i-1) seconds, whatever the retryable error; a call that succeeds
\* on attempt k has waited delay * (2^(k-1) - 1) seconds in all.
C8_Backoff ==
    /\ Len(sleeps) = Cardinality({ k \in DOMAIN outcomes : Retryable(outcomes[k]) })
    /\ \A i \in DOMAIN sleeps :
           /\ Retryable(outcomes[i])
           /\ sleeps[i] = args.delay * 2^(i - 1)
    /\ \A k \in DOMAIN outcomes :
           Succeeded(outcomes[k]) => Sum(sleeps) = args.delay * (2^(k - 1) - 1)

\* delay = 2, retries = 3, rate limits on attempts 1 and 2, success on 3:
\* waits of 2 and 4 seconds.
C8_TwoFourSix ==
    /\ args = [retries |-> DefaultRetries, delay |-> DefaultDelay]
    /\ Len(outcomes) = 3
    /\ outcomes[1] = Failed("RateLimitError")
    /\ outcomes[2] = Failed("RateLimitError")
    /\ Succeeded(outcomes[3])
    /\ sleeps = <<2, 4>>
    /\ Sum(sleeps) = 6

\* ------------------------------------------ claims about error propagation
\* s is an initial part of t.
Prefix(s, t) == Len(s) <= Len(t) /\ SubSeq(t, 1, Len(s)) = s

\* C9: no exception leaves get_completion or process_question: no handler ends
\* by raising and main is never left by an exception; every finished handler's
\* call returned a (model, answer) pair or (None, None), and every handler
\* that has ended recorded its question in results or in failed_questions.
C9_NoExceptionEscapes ==
    /\ main_pc # "crashed"
    /\ \A i \in DOMAIN tasks :
           /\ tasks[i].pc # "raised"
           /\ tasks[i].pc = "done" =>
                  \/ tasks[i].ret = NoReturn
                  \/ tasks[i].ret[1] # None /\ tasks[i].ret[2] # None
    /\ Len(benchmark_results) + Len(summary.failed_questions)
           = Cardinality({ i \in DOMAIN tasks : tasks[i].pc \in {"done", "raised"} })

\* What a step in which handler i finishes does: the question is recorded
\* from the pair its own call returned, the records made before stay, and no
\* other handler's call is touched (a blocked one may get the slot).
FinishesAlone(i) ==
    LET ret == tasks'[i].ret
        q == questions[i]
    IN /\ main_pc' = "gather"
       /\ \A j \in DOMAIN tasks :
              j # i => \/ tasks'[j] = tasks[j]
                       \/ tasks[j].pc = "waiting" /\ tasks'[j].pc = "request"
       /\ IF ret[1] # None /\ ret[1] # "" /\ ret[2] # None /\ ret[2] # ""
          THEN /\ benchmark_results' =
                      Append(benchmark_results,
                             [id |-> q.id, difficulty |-> q.difficulty,
                              question |-> q.question, model_used |-> ret[1],
                              answer |-> ret[2]])
               /\ summary'.failed_questions = summary.failed_questions
          ELSE /\ benchmark_results' = benchmark_results
               /\ summary'.failed_questions = Append(summary.failed_questions, q.id)

\* The part of C10 about the other questions: each handler that finishes
\* records its own question from its own call's result and leaves the other
\* handlers' calls and the earlier records alone.
OutcomesIndependent ==
    /\ [][ \A i \in DOMAIN tasks :
               (tasks[i].pc # "done" /\ tasks'[i].pc = "done") => FinishesAlone(i)
         ]_vars
    /\ [][ main_pc' = "gather" =>
               /\ Prefix(benchmark_results, benchmark_results')
               /\ Prefix(summary.failed_questions, summary'.failed_questions)
         ]_vars

\* C10: a failed question never aborts the run and never changes another
\* question's outcome: main is never left by an exception, a run that has
\* left the dispatcher has attempted and finished every question, and each
\* question is recorded from its own call's result only.
C10_FailureIsolated ==
    /\ [](main_pc # "crashed")
    /\ [](main_pc \notin {"check_key", "load", "dispatch", "gather", "aborted"} =>
              \A i \in DOMAIN questions : invoked[i] = 1 /\ tasks[i].pc = "done")
    /\ [](main_pc = "gather" => ENABLED Next)
    /\ OutcomesIndependent

\* ------------------------------------------------ claims about recording
\* Handler i ends in this step with its call returned.
Finishes(i) == tasks[i].pc # "done" /\ tasks'[i].pc = "done"

\* Handler i ends in this step by the exception that left its call.
Raises(i) == tasks[i].pc # "raised" /\ tasks'[i].pc = "raised"

\* C11: the id of a question is appended to failed_questions exactly when its
\* get_completion call ended without a successful attempt; when an attempt
\* succeeded, whatever model name and answer text the service returned, the
\* entry with the question's id, difficulty, text, that model name and that
\* answer is appended to results and model_usage of that model grows by one.
C11_RecordedByOutcome ==
    [][ \A i \in DOMAIN tasks :
            /\ Finishes(i) =>
                   LET ret == tasks'[i].ret
                       q == questions[i]
                   IN IF ret = NoReturn
                      THEN /\ summary'.failed_questions
                                  = Append(summary.failed_questions, q.id)
                           /\ benchmark_results' = benchmark_results
                           /\ summary'.model_usage = summary.model_usage
                      ELSE /\ benchmark_results' =
                                  Append(benchmark_results,
                                         [id |-> q.id, difficulty |-> q.difficulty,
                                          question |-> q.question,
                                          model_used |-> ret[1], answer |-> ret[2]])
                           /\ summary'.failed_questions = summary.failed_questions
                           /\ ret[1] \in DOMAIN summary'.model_usage
                           /\ summary'.model_usage[ret[1]] =
                                  (IF ret[1] \in DOMAIN summary.model_usage
                                   THEN summary.model_usage[ret[1]] ELSE 0) + 1
            /\ Raises(i) =>
                   summary'.failed_questions
                       = Append(summary.failed_questions, questions[i].id)
      ]_vars

\* ------------------------------------------------ claims about pre-flight
\* The credential is absent, or the question file is missing or malformed.
PreFlightFails == ~api_key_set \/ question_file.status # "ok"

\* C12: with the credential absent or the question file missing or not valid
\* JSON the run ends in the pre-flight failure state, where nothing more
\* happens: no handler is created or invoked, no request is sent, nothing is
\* written; the credential is checked first, so the file is read only with
\* the credential present.
C12_PreFlight ==
    /\ [](PreFlightFails =>
              /\ main_pc \in {"check_key", "load", "aborted"}
              /\ tasks = <<>>
              /\ invoked = <<>>
              /\ questions = <<>>
              /\ written = <<>>)
    /\ [](main_pc = "load" => api_key_set)
    /\ [](~api_key_set => main_pc \in {"check_key", "aborted"})
    /\ [](main_pc \in {"check_key", "load"} => ENABLED Next)
    /\ [](main_pc = "aborted" => PreFlightFails /\ ~ENABLED Next)
    /\ [][ (main_pc = "check_key" /\ ~api_key_set) => main_pc' = "aborted" ]_vars
    /\ [][ (main_pc = "load" /\ question_file.status # "ok") =>
               main_pc' = "aborted" ]_vars

\* A run with the credential that stopped at a question file that is not
\* valid JSON.
C12_MalformedFileAborts ==
    /\ main_pc = "aborted"
    /\ api_key_set
    /\ question_file.status = "malformed"

\* ------------------------------------------- claims about the backoff wait
\* C13: a backoff wait happens only between two attempts: a call is in a wait
\* only while it has an attempt left, and a call that made a attempts and
\* returned (None, None) has waited a - 1 times.
C13_WaitOnlyBetweenAttempts ==
    /\ call.pc = "sleeping" => requests < args.retries
    /\ (call.pc = "returned" /\ call.ret = NoReturn) => Len(sleeps) = requests - 1

\* ------------------------------------------- claims about the shared state
\* The sum of f over the keys in S.
RECURSIVE SumOver(_, _)
SumOver(f, S) ==
    IF S = {} THEN 0
    ELSE LET k == CHOOSE x \in S : TRUE IN f[k] + SumOver(f, S \ {k})

\* The positions of results answered by model m.
AnsweredBy(m) == { k \in DOMAIN benchmark_results : benchmark_results[k].model_used = m }

\* C14: no update of the shared result list and summary is lost: in every
\* reachable state, model_usage[m] is the number of entries of results with
\* model_used = m for each model m, and the counts add up to len(results).
C14_UsageMatchesResults ==
    /\ \A m \in DOMAIN summary.model_usage :
           summary.model_usage[m] = Cardinality(AnsweredBy(m))
    /\ \A k \in DOMAIN benchmark_results :
           benchmark_results[k].model_used \in DOMAIN summary.model_usage
    /\ SumOver(summary.model_usage, DOMAIN summary.model_usage) = Len(benchmark_results)

\* Three handlers overlapped: two answers by the same model are recorded
\* while a third handler, which entered before the second finished, is still
\* in a request.
C14_InterleavedUpdates ==
    /\ main_pc = "gather"
    /\ CONCURRENT_REQUESTS >= 2
    /\ InFlight # {}
    /\ \E m \in DOMAIN summary.model_usage : summary.model_usage[m] = 2

\* ------------------------------------------------ claims about the report
\* No handler is inside the gate, blocked at it or yet to start: all are done.
NoHandlerLeft ==
    /\ InFlight = {}
    /\ Waiting = {}
    /\ \A i \in DOMAIN tasks : tasks[i].pc = "done"
    /\ Len(tasks) = Len(questions)
    /\ Len(completed) = Len(questions)

\* C15: main goes on past the dispatcher only after all N handlers have
\* finished: the sort of results, the assembly of the report and the write of
\* the output file happen only in a step taken with no handler in flight or
\* waiting at the gate, and the report is written at most once per run.
C15_ReportAfterAllHandlers ==
    /\ [][ (main_pc' = "done" \/ written' # written
                \/ (main_pc' # "gather" /\ benchmark_results' # benchmark_results)) =>
               /\ NoHandlerLeft
               /\ written = <<>>
               /\ UNCHANGED tasks
         ]_vars
    /\ [](main_pc = "done" => NoHandlerLeft)
    /\ [](Len(written) <= 1)
    /\ [](written # <<>> => main_pc = "done")

\* The report of a run in which questions had to wait at the gate has been
\* written, with every question in it.
C15_WrittenAfterQueueing ==
    /\ main_pc = "done"
    /\ Len(written) = 1
    /\ Len(questions) > CONCURRENT_REQUESTS
    /\ Len(written[1].results) + Len(written[1].summary.failed_questions)
           = Len(questions)

\* --------------------------------------------------- claims about the gate
\* Handler i leaves the gate in this step.
Leaves(i) == i \in InFlight /\ tasks'[i].pc \in {"done", "raised"}

\* The part of C16 about the hand-over: a question waits only while the gate
\* is full, and a handler that leaves the gate while questions wait lets one
\* of them in within the same step.
GateHandsOver ==
    /\ [](Waiting # {} => Cardinality(InFlight) = CONCURRENT_REQUESTS)
    /\ [][ \A i \in DOMAIN tasks :
               (Leaves(i) /\ Waiting # {}) =>
                   /\ \E w \in Waiting :
                          /\ tasks'[w].pc = "request"
                          /\ invoked'[w] = invoked[w] + 1
                   /\ semaphore' = semaphore
         ]_vars
    /\ [][ \A w \in DOMAIN tasks :
               (tasks[w].pc = "created" /\ tasks'[w].pc = "waiting") =>
                   Cardinality(InFlight) = CONCURRENT_REQUESTS
         ]_vars

\* C16: the gate does not serialize beyond the ceiling: a question waits at
\* the gate only while exactly CONCURRENT_REQUESTS handlers are in flight, a
\* handler that finishes while questions wait lets one of them in, and every
\* waiting question enters: no run ends with a question still at the gate.
C16_GateDoesNotSerialize ==
    /\ GateHandsOver
    /\ [](main_pc \in {"done", "crashed"} => Waiting = {})

\* ------------------------------------------------ claims about termination
\* C17: every run that passes pre-flight terminates in its completed state,
\* whatever the value of CONCURRENT_REQUESTS: each question makes one
\* get_completion call of at most `retries` attempts, and until the run has
\* completed some handler or main can always take its next step (each step
\* being taken eventually and their number bounded, the run completes); main
\* is never left by an exception.
C17_Terminates ==
    /\ \A i \in DOMAIN tasks :
           /\ invoked[i] <= 1
           /\ tasks[i].pc \in {"request", "sleeping"} =>
                  tasks[i].attempt < DefaultRetries
    /\ main_pc # "crashed"
    /\ main_pc \notin {"done", "aborted"} => ENABLED Next

\* The semaphore exists: main has reached asyncio.gather.
Dispatched == main_pc \in {"gather", "done", "crashed"}

\* C18: a handler holds its gate slot for its whole get_completion call, the
\* backoff sleeps included, and gives it back exactly once when it ends,
\* normally or by an exception: once the gate exists, free slots plus
\* handlers in flight (in a request or in a backoff sleep) make
\* CONCURRENT_REQUESTS, and when gather has returned all slots are free.
C18_SlotsAccounted ==
    /\ Dispatched =>
           /\ semaphore \in 0..CONCURRENT_REQUESTS
           /\ semaphore + Cardinality(InFlight) = CONCURRENT_REQUESTS
    /\ main_pc = "done" => semaphore = CONCURRENT_REQUESTS

\* One handler has ended by an exception and given its slot back, another is
\* in a backoff sleep and holds its slot.
C18_SleepingHoldsSlot ==
    /\ main_pc = "gather"
    /\ CONCURRENT_REQUESTS = 2
    /\ semaphore = 1
    /\ \E i \in DOMAIN tasks : tasks[i].pc = "raised"
    /\ \E i \in DOMAIN tasks : tasks[i].pc = "sleeping"

\* --------------------------------------- claims about the state in dispatch
\* Handlers that have ended, by returning or by an exception.
Ended == { i \in DOMAIN tasks : tasks[i].pc \in {"done", "raised"} }

\* C19: at every moment of the dispatch len(results) + len(failed_questions)
\* is the number of handlers that have finished, no id is in both
\* collections, an entry once appended to results is neither changed nor
\* removed before the final sort, and total_questions stays N.
C19_DispatchInvariants ==
    /\ [](Dispatched =>
              /\ Len(benchmark_results) + Len(summary.failed_questions)
                     = Cardinality(Ended)
              /\ IdsOf(benchmark_results) \cap Range(summary.failed_questions) = {}
              /\ summary.total_questions = Len(questions))
    /\ [][ (main_pc = "gather" /\ main_pc' = "gather") =>
               /\ Prefix(benchmark_results, benchmark_results')
               /\ Prefix(summary.failed_questions, summary'.failed_questions)
         ]_vars

\* ------------------------------------------- claims about the backoff state
\* The backoff state of a call in progress.
Backoff(c) == <<c.attempt, c.delay, c.retries>>

Running(c) == c.pc \in {"request", "sleeping"}

\* C20: the backoff state is local to one get_completion call: a call starts
\* from the initial delay with all its attempts ahead, its state changes only
\* when its own backoff sleep ends (delay doubled, one attempt used), and an
\* error met by one call leaves every other call in progress as it is.
C20_BackoffIsLocal ==
    [][ \A j \in DOMAIN tasks :
            /\ (~Running(tasks[j]) /\ Running(tasks'[j])) =>
                   /\ tasks'[j].pc = "request"
                   /\ Backoff(tasks'[j]) = <<0, DefaultDelay, DefaultRetries>>
            /\ (Running(tasks[j]) /\ Running(tasks'[j])) =>
                   \/ Backoff(tasks'[j]) = Backoff(tasks[j])
                   \/ /\ tasks[j].pc = "sleeping"
                      /\ tasks'[j].pc = "request"
                      /\ Backoff(tasks'[j]) =
                             <<tasks[j].attempt + 1, 2 * tasks[j].delay, tasks[j].retries>>
            /\ \A i \in DOMAIN tasks :
                   (i # j /\ tasks[i].pc = "request" /\ tasks'[i].pc # "request"
                        /\ Running(tasks[j])) =>
                       tasks'[j] = tasks[j]
      ]_vars

\* Two calls in progress at once: one has met two errors and is at its third
\* attempt with the delay at 8, the other is still at its first attempt with
\* the initial delay.
C20_TwoCallsApart ==
    /\ main_pc = "gather"
    /\ \E i, j \in DOMAIN tasks :
           /\ i # j
           /\ tasks[i].pc = "request"
           /\ Backoff(tasks[i]) = <<2, 4 * DefaultDelay, DefaultRetries>>
           /\ tasks[j].pc = "request"
           /\ Backoff(tasks[j]) = <<0, DefaultDelay, DefaultRetries>>


====
